---- MODULE Spec2Model ----
(***************************************************************************)
(* A model of HAClusterRequires (requires.py): the requires side of the    *)
(* hacluster relation.  Three parts of the class are modelled:             *)
(*   - the relation hooks joined / changed / departed and is_clustered();  *)
(*   - bind_on / manage_resources / bind_resources with the data_changed   *)
(*     gate in front of set_local / set_remote;                            *)
(*   - the add_* / remove_* operations on the locally persisted registry   *)
(*     (get_local('resources') ... set_local(resources=...)).              *)
(* Python values are tagged records [t |-> type, v |-> value]; Python      *)
(* strings are TLA+ strings, handled character by character where the code *)
(* does (lower, replace, the 'in' substring test).                         *)
(***************************************************************************)
EXTENDS Integers, Sequences, FiniteSets, TLC

VARIABLES
    connected,        \* flag '{relation_name}.connected'
    available,        \* flag '{relation_name}.available'
    remote,           \* remote unit -> the value it presents for 'clustered'
    ret,              \* what the last is_clustered() evaluation returned
    seen,             \* the value is_clustered() took as clustered_values[0]
    relation,         \* the settings this unit has set on the relation
    local_data,       \* set_local's store, the keys other than 'resources'
    changed_store,    \* data_changed's store: topic -> last payload seen
    calls,            \* history: topic -> the last call and the one before
    ungated,          \* history: the relation had every call written
    local_resources,  \* get_local('resources')
    crm_shares,       \* whether CRM(**d) keeps d's nested mappings
    self_attrs,       \* the instance attributes service_name, endpoint_type
    err,              \* the exception the last operation raised
    last_op,          \* the last operation (and a registry one's arguments)
    flags_before,     \* history: the two flags as the last hook found them
    vips_added,       \* history: service name -> VIP keys added by add_vip
    only_vips         \* history: every registry operation so far was add_vip

vars == <<connected, available, remote, ret, seen, relation, local_data,
          changed_store, calls, ungated, local_resources, crm_shares,
          self_attrs, err, last_op, flags_before, vips_added,
          only_vips>>

connVars == <<connected, available, remote, ret, seen, flags_before>>
gateVars == <<local_data, changed_store, calls>>
regVars == <<local_resources, crm_shares, self_attrs, vips_added, only_vips>>

-----------------------------------------------------------------------------
(* Bounds *)

\* Remote units on the relation.
NumUnits == 2

\* Resources a registry may hold before the add_* operations stop.
MaxResources == 2

\* Deletions a registry may hold before the remove_* operations stop.
MaxDeletes == 1

-----------------------------------------------------------------------------
(* Python values *)

None == [t |-> "None", v |-> "None"]
BoolV(b) == [t |-> "bool", v |-> b]
StrV(s) == [t |-> "str", v |-> s]
IntV(n) == [t |-> "int", v |-> n]

\* Python truthiness of the values above.
Truthy(x) ==
    CASE x.t = "None" -> FALSE
      [] x.t = "bool" -> x.v
      [] x.t = "str" -> x.v # ""
      [] x.t = "int" -> x.v # 0

\* A dict: a function from its keys.  d.update(e): e's keys win.
EmptyDict == <<>>
Update(d, e) == e @@ d

-----------------------------------------------------------------------------
(* Strings *)

RECURSIVE Join(_)
Join(cs) == IF cs = <<>> THEN "" ELSE Head(cs) \o Join(Tail(cs))

UpperLetters == "ABCDEFGHIJKLMNOPQRSTUVWXYZ"
LowerLetters == "abcdefghijklmnopqrstuvwxyz"

\* str.lower() on one character.
LowerChar(c) ==
    IF \E i \in 1..Len(UpperLetters) : SubSeq(UpperLetters, i, i) = c
    THEN LET i == CHOOSE i \in 1..Len(UpperLetters) :
                      SubSeq(UpperLetters, i, i) = c
         IN SubSeq(LowerLetters, i, i)
    ELSE c

Lower(s) == Join([i \in 1..Len(s) |-> LowerChar(SubSeq(s, i, i))])

\* s.replace('-', '_')
ReplaceDash(s) ==
    Join([i \in 1..Len(s) |->
            IF SubSeq(s, i, i) = "-" THEN "_" ELSE SubSeq(s, i, i)])

\* pat in s
Contains(s, pat) ==
    \E i \in 1..(Len(s) - Len(pat) + 1) : SubSeq(s, i, i + Len(pat) - 1) = pat

-----------------------------------------------------------------------------
(* The relation as the hooks find it *)

Units == 1..NumUnits

\* The values a remote unit may present for 'clustered': absent, the bool
\* of future hacluster versions, the strings of current ones.
ClusteredValues ==
    {None, BoolV(TRUE), BoolV(FALSE), StrV("True"), StrV("yes"),
     StrV("false"), StrV(""), StrV("truex")}

\* This unit's side of the relation: no relation, or the settings set on it.
NoRelation == None

NoError == "none"

Op(name, args) == [op |-> name, args |-> args]

\* A remote unit sets (or clears) its 'clustered' setting: what
\* hookenv.relation_get(key, unit, relation_id) will return for it.
RemoteSet(u, v) ==
    /\ remote[u] # v
    /\ remote' = [remote EXCEPT ![u] = v]
    /\ last_op' = Op("relation-set", <<>>)
    /\ UNCHANGED <<connected, available, ret, seen, flags_before, relation,
                   ungated, err>>
    /\ UNCHANGED gateVars
    /\ UNCHANGED <<local_resources, crm_shares, self_attrs, vips_added,
                   only_vips>>

\* The loop of get_remote_all: for each related unit in enumeration order,
\* value = relation_get(...) or default; kept if truthy.
RECURSIVE remote_values(_, _)
remote_values(u, default) ==
    IF u > NumUnits THEN <<>>
    ELSE LET value == IF Truthy(remote[u]) THEN remote[u] ELSE default
         IN (IF Truthy(value) THEN <<value>> ELSE <<>>)
                \o remote_values(u + 1, default)

SeqToSet(q) == {q[i] : i \in 1..Len(q)}

\* list(set(values)): the distinct values in whatever order the set
\* iterates, which the language leaves open: every ordering is an outcome.
ListOfSet(S) ==
    {q \in [1..Cardinality(S) -> S] : SeqToSet(q) = S}

get_remote_all(default) == ListOfSet(SeqToSet(remote_values(1, default)))

\* is_clustered() comparing the string as it came, without lower().
is_clustered_case_sensitive(clustered_values) ==
    IF clustered_values # <<>>
    THEN LET clustered == clustered_values[1]
         IN IF clustered.t = "bool"
            THEN clustered.v
            ELSE clustered # None
                    /\ (clustered.v = "true" \/ clustered.v = "yes")
    ELSE FALSE

\* is_clustered() on the list get_remote_all returned.
is_clustered(clustered_values) ==
    IF clustered_values # <<>>
    THEN LET clustered == clustered_values[1]
         IN IF clustered.t = "bool"
            THEN clustered.v
            ELSE clustered # None
                    /\ (Lower(clustered.v) = "true"
                          \/ Lower(clustered.v) = "yes")
    ELSE FALSE

\* What an evaluation took as clustered_values[0].
FirstOf(clustered_values) ==
    IF clustered_values # <<>> THEN clustered_values[1] ELSE None

\* A call of is_clustered() by the charm.
IsClustered ==
    /\ \E cv \in get_remote_all(None) :
          /\ ret' = BoolV(is_clustered(cv))
          /\ seen' = FirstOf(cv)
    /\ err' = NoError
    /\ last_op' = Op("is_clustered", <<>>)
    /\ UNCHANGED <<connected, available, remote, flags_before, relation,
                   ungated>>
    /\ UNCHANGED gateVars
    /\ UNCHANGED <<local_resources, crm_shares, self_attrs, vips_added,
                   only_vips>>

Flags == [connected |-> connected, available |-> available]

\* {requires:hacluster}-relation-joined.  The hook runs on a relation Juju
\* has established: a new one starts with none of this unit's settings.
joined ==
    /\ connected' = TRUE
    /\ relation' = IF relation = NoRelation THEN EmptyDict ELSE relation
    /\ ungated' = IF ungated = NoRelation THEN EmptyDict ELSE ungated
    /\ flags_before' = Flags
    /\ err' = NoError
    /\ last_op' = Op("joined", <<>>)
    /\ UNCHANGED <<available, remote, ret, seen>>
    /\ UNCHANGED gateVars
    /\ UNCHANGED <<local_resources, crm_shares, self_attrs, vips_added,
                   only_vips>>

\* relation-changed that only ever sets the flag.
changed_edge_triggered ==
    /\ \E cv \in get_remote_all(None) :
          /\ ret' = BoolV(is_clustered(cv))
          /\ seen' = FirstOf(cv)
          /\ available' = (available \/ is_clustered(cv))
    /\ flags_before' = Flags
    /\ err' = NoError
    /\ last_op' = Op("changed", <<>>)
    /\ UNCHANGED <<connected, remote, relation, ungated>>
    /\ UNCHANGED gateVars
    /\ UNCHANGED <<local_resources, crm_shares, self_attrs, vips_added,
                   only_vips>>

\* {requires:hacluster}-relation-changed
changed ==
    /\ \E cv \in get_remote_all(None) :
          /\ ret' = BoolV(is_clustered(cv))
          /\ seen' = FirstOf(cv)
          /\ available' = is_clustered(cv)
    /\ flags_before' = Flags
    /\ err' = NoError
    /\ last_op' = Op("changed", <<>>)
    /\ UNCHANGED <<connected, remote, relation, ungated>>
    /\ UNCHANGED gateVars
    /\ UNCHANGED <<local_resources, crm_shares, self_attrs, vips_added,
                   only_vips>>

\* relation-departed that clears the available flag alone.
departed_keeping_connected ==
    /\ available' = FALSE
    /\ connected' = connected
    /\ relation' = NoRelation
    /\ ungated' = NoRelation
    /\ flags_before' = Flags
    /\ err' = NoError
    /\ last_op' = Op("departed", <<>>)
    /\ UNCHANGED <<remote, ret, seen>>
    /\ UNCHANGED gateVars
    /\ UNCHANGED <<local_resources, crm_shares, self_attrs, vips_added,
                   only_vips>>

\* {requires:hacluster}-relation-{broken,departed}.  The relation's
\* settings go with the relation; data_changed's store and set_local's do not.
departed ==
    /\ available' = FALSE
    /\ connected' = FALSE
    /\ relation' = NoRelation
    /\ ungated' = NoRelation
    /\ flags_before' = Flags
    /\ err' = NoError
    /\ last_op' = Op("departed", <<>>)
    /\ UNCHANGED <<remote, ret, seen>>
    /\ UNCHANGED gateVars
    /\ UNCHANGED <<local_resources, crm_shares, self_attrs, vips_added,
                   only_vips>>

-----------------------------------------------------------------------------
(* The resource registry: relations.hacluster.common.CRM *)

\* A registry: its resources by key, its groups by name (a group's members
\* are handed over sorted, so the set of members determines them) and the
\* keys recorded for deletion.
CRM(resources, groups, delete_resources) ==
    [resources |-> resources, groups |-> groups,
     delete_resources |-> delete_resources]

\* CRM()
EmptyCRM == CRM(EmptyDict, EmptyDict, {})

\* crm.items(): the registry's sections as a dict.
crm_items(crm) ==
    [k \in {"resources", "groups", "delete_resources"} |->
        CASE k = "resources" -> crm.resources
          [] k = "groups" -> crm.groups
          [] k = "delete_resources" -> crm.delete_resources]

\* Truthiness of a section: a non-empty mapping (resources, groups) or
\* collection (delete_resources).
NonEmpty(k, v) == IF k = "delete_resources" THEN v # {} ELSE v # EmptyDict

-----------------------------------------------------------------------------
(* bind_on, manage_resources and the data_changed gate *)

BIND_ON == "hacluster-bind_on"
MANAGE_RESOURCES == "hacluster-manage_resources"
Topics == {BIND_ON, MANAGE_RESOURCES}

\* json.dumps(v, sort_keys=True): one text per value.
json_dumps(v) == [t |-> "json", v |-> v]

\* What data_changed stores for a payload: the digest of its sorted JSON
\* serialization, taken as one digest per payload.
data_hash(data) == [t |-> "md5", v |-> json_dumps(data)]

\* The state bind_on and manage_resources read and write.
GateState ==
    [relation |-> relation, local_data |-> local_data,
     changed_store |-> changed_store, calls |-> calls, ungated |-> ungated]

\* data_changed(data_id, data): whether the digest differs from the stored
\* one; the new digest is stored either way.
data_changed(g, data_id, data) == g.changed_store[data_id] # data_hash(data)

data_changed_store(g, data_id, data) ==
    [g EXCEPT !.changed_store[data_id] = data_hash(data)]

\* set_local(**data) then set_remote(**data).
set_local_remote(g, data) ==
    [g EXCEPT !.local_data = Update(g.local_data, data),
              !.relation = IF g.relation = NoRelation THEN NoRelation
                           ELSE Update(g.relation, data)]

\* History of a call for a topic: its payload, whether it wrote, the payload
\* of the call before it, and the last non-empty payload before it.  The
\* shadow relation takes every payload.
NoCall == [count |-> 0, payload |-> None, wrote |-> FALSE, prev |-> None,
           kept |-> None]

record_call(g, topic, data, wrote) ==
    LET old == g.calls[topic]
    IN [g EXCEPT
          !.calls[topic] =
              [count |-> IF old.count = 0 THEN 1 ELSE 2,
               payload |-> data,
               wrote |-> wrote,
               prev |-> old.payload,
               kept |-> IF old.payload # None /\ old.payload # EmptyDict
                        THEN old.payload ELSE old.kept],
          !.ungated = IF g.ungated = NoRelation THEN NoRelation
                      ELSE Update(g.ungated, data)]

\* The relation_data dict bind_on builds.
bind_on_data(iface, mcastport) ==
    (IF Truthy(iface) THEN "corosync_bindiface" :> iface ELSE EmptyDict)
      @@ (IF Truthy(mcastport) THEN "corosync_mcastport" :> mcastport
          ELSE EmptyDict)

\* bind_on asking data_changed before looking at the dict.
bind_on_fn_gate_first(g, iface, mcastport) ==
    LET relation_data == bind_on_data(iface, mcastport)
        write == data_changed(g, BIND_ON, relation_data)
                    /\ relation_data # EmptyDict
        g1 == data_changed_store(g, BIND_ON, relation_data)
        g2 == IF write THEN set_local_remote(g1, relation_data) ELSE g1
    IN record_call(g2, BIND_ON, relation_data, write)

\* bind_on(iface, mcastport): `relation_data and data_changed(...)` asks
\* data_changed only for a non-empty dict.
bind_on_fn(g, iface, mcastport) ==
    LET relation_data == bind_on_data(iface, mcastport)
        asked == relation_data # EmptyDict
        write == asked /\ data_changed(g, BIND_ON, relation_data)
        g1 == IF asked THEN data_changed_store(g, BIND_ON, relation_data)
              ELSE g
        g2 == IF write THEN set_local_remote(g1, relation_data) ELSE g1
    IN record_call(g2, BIND_ON, relation_data, write)

\* The relation_data dict manage_resources builds: the non-empty sections.
manage_resources_data(crm) ==
    LET items == crm_items(crm)
        keys == {k \in DOMAIN items : NonEmpty(k, items[k])}
    IN [k \in {"json_" \o x : x \in keys} |->
            json_dumps(items[CHOOSE x \in keys : k = "json_" \o x])]

manage_resources_fn(g, crm) ==
    LET relation_data == manage_resources_data(crm)
        write == data_changed(g, MANAGE_RESOURCES, relation_data)
        g1 == data_changed_store(g, MANAGE_RESOURCES, relation_data)
        g2 == IF write THEN set_local_remote(g1, relation_data) ELSE g1
    IN record_call(g2, MANAGE_RESOURCES, relation_data, write)

DefaultMcastPort == 4440

\* bind_resources(iface, mcastport)
bind_resources_fn(g, iface, mcastport) ==
    LET port == IF mcastport = None THEN IntV(DefaultMcastPort)
                ELSE mcastport
        resources_dict == local_resources
        g1 == bind_on_fn(g, iface, port)
    IN IF resources_dict # None
       THEN manage_resources_fn(g1, resources_dict)
       ELSE g1

SetGate(g) ==
    /\ relation' = g.relation
    /\ local_data' = g.local_data
    /\ changed_store' = g.changed_store
    /\ calls' = g.calls
    /\ ungated' = g.ungated

Ifaces == {None, StrV(""), StrV("eth0")}
McastPorts == {None, IntV(0), IntV(DefaultMcastPort)}

\* The calls of the charm.  They are made from handlers of the relation's
\* '.connected' flag, on an established relation, where set_remote has a
\* conversation to write to.
bind_on(iface, mcastport) ==
    /\ relation # NoRelation
    /\ SetGate(bind_on_fn(GateState, iface, mcastport))
    /\ err' = NoError
    /\ last_op' = Op("bind_on", <<>>)
    /\ UNCHANGED connVars
    /\ UNCHANGED regVars

manage_resources(crm) ==
    /\ relation # NoRelation
    /\ SetGate(manage_resources_fn(GateState, crm))
    /\ err' = NoError
    /\ last_op' = Op("manage_resources", <<>>)
    /\ UNCHANGED connVars
    /\ UNCHANGED regVars

bind_resources(iface, mcastport) ==
    /\ relation # NoRelation
    /\ SetGate(bind_resources_fn(GateState, iface, mcastport))
    /\ err' = NoError
    /\ last_op' = Op("bind_resources", <<>>)
    /\ UNCHANGED connVars
    /\ UNCHANGED regVars

-----------------------------------------------------------------------------
(* The operations on the locally persisted registry *)

\* hashlib.sha1(vip.encode('UTF-8')).hexdigest()[:7], for the model's VIPs.
sha1_hex7(vip) ==
    CASE vip = "10.0.0.5" -> "00d7353"
      [] vip = "10.0.0.6" -> "d85d4f6"

\* 'res_{}_{}_vip'.format(name, nic_name)
vip_res_key(name, vip, iface) ==
    LET nic_name == IF Truthy(iface) THEN iface.v ELSE sha1_hex7(vip)
    IN "res_" \o name \o "_" \o nic_name \o "_vip"

\* 'res_{}_{}'.format(name.replace('-', '_'), service.replace('-', '_'))
service_res_key(name, service) ==
    "res_" \o ReplaceDash(name) \o "_" \o ReplaceDash(service)

\* 'res_{}_{}_hostname'.format(name.replace('-', '_'), endpoint_type)
dns_res_key(name, endpoint_type) ==
    "res_" \o ReplaceDash(name) \o "_" \o endpoint_type \o "_hostname"

\* The resource descriptions of relations.hacluster.common, each with the
\* key it is registered under.
VirtualIP(name, vip, nic, cidr) ==
    [kind |-> "VirtualIP", key |-> vip_res_key(name, vip, nic),
     params |-> <<StrV(vip), nic, cidr>>]

InitService(name, service, clone) ==
    [kind |-> "InitService", key |-> service_res_key(name, service),
     params |-> <<StrV(service), BoolV(clone)>>]

SystemdService(name, service, clone) ==
    [kind |-> "SystemdService", key |-> service_res_key(name, service),
     params |-> <<StrV(service), BoolV(clone)>>]

DNSEntry(name, ip, fqdn, endpoint_type) ==
    [kind |-> "DNSEntry", key |-> dns_res_key(name, endpoint_type),
     params |-> <<StrV(ip), StrV(fqdn), StrV(endpoint_type)>>]

\* CRM.add(resource): insert or overwrite by key.
crm_add(crm, res) ==
    [crm EXCEPT !.resources = Update(crm.resources, res.key :> res)]

\* CRM.group(name, *members): create or overwrite the group.
crm_group(crm, name, members) ==
    [crm EXCEPT !.groups = Update(crm.groups, name :> members)]

\* CRM.add_delete_resource(resource_name)
crm_add_delete_resource(crm, resource_name) ==
    [crm EXCEPT !.delete_resources = crm.delete_resources \cup {resource_name}]

\* CRM(**resource_dict) if resource_dict else CRM().  A persisted registry
\* is a mapping with its sections as keys: it is truthy.
load_resources(resource_dict) ==
    IF resource_dict # None THEN resource_dict ELSE EmptyCRM

\* resource_dict.get('resources') read after resources.add(...): the
\* mapping CRM(**resource_dict) was given.  When the registry keeps that
\* mapping, the add shows in it; when it copies, it does not.
resources_of_dict(resource_dict, resources) ==
    IF crm_shares THEN resources.resources ELSE resource_dict.resources

\* The group block of add_vip and add_dnsha: the keys holding the marker
\* go to the group, when there was a persisted registry with resources.
regroup(resource_dict, resources, group, marker) ==
    IF resource_dict # None
    THEN LET kind_resources == resources_of_dict(resource_dict, resources)
         IN IF kind_resources # EmptyDict
            THEN crm_group(resources, group,
                           {k \in DOMAIN kind_resources : Contains(k, marker)})
            ELSE resources
    ELSE resources

add_vip_fn(resource_dict, name, vip, iface, netmask) ==
    LET resources == crm_add(load_resources(resource_dict),
                             VirtualIP(name, vip, iface, netmask))
        group == "grp_" \o name \o "_vips"
    IN regroup(resource_dict, resources, group, "vip")

add_dnsha_fn(resource_dict, name, ip, fqdn, endpoint_type) ==
    LET resources == crm_add(load_resources(resource_dict),
                             DNSEntry(name, ip, fqdn, endpoint_type))
        group == "grp_" \o name \o "_hostnames"
    IN regroup(resource_dict, resources, group, "hostname")

add_init_service_fn(resource_dict, name, service, clone) ==
    crm_add(load_resources(resource_dict), InitService(name, service, clone))

add_systemd_service_fn(resource_dict, name, service, clone) ==
    crm_add(load_resources(resource_dict),
            SystemdService(name, service, clone))

delete_resource_fn(resource_dict, resource_name) ==
    crm_add_delete_resource(load_resources(resource_dict), resource_name)

\* The bound on the registry: an operation runs when what it leaves fits.
Fits(crm) ==
    /\ Cardinality(DOMAIN crm.resources) <= MaxResources
    /\ Cardinality(crm.delete_resources) <= MaxDeletes

UnchangedOutsideRegistry ==
    /\ UNCHANGED connVars
    /\ UNCHANGED gateVars
    /\ UNCHANGED <<relation, ungated, crm_shares, self_attrs>>

\* An operation that ran to its set_local(resources=resources).
Persist(crm, op, is_add_vip) ==
    /\ Fits(crm)
    /\ local_resources' = crm
    /\ err' = NoError
    /\ last_op' = op
    /\ only_vips' = (only_vips /\ is_add_vip)
    /\ UnchangedOutsideRegistry

add_vip(name, vip, iface, netmask) ==
    /\ Persist(add_vip_fn(local_resources, name, vip, iface, netmask),
               Op("add_vip", <<name, vip, iface, netmask>>), TRUE)
    /\ vips_added' =
          [vips_added EXCEPT ![name] = @ \cup {vip_res_key(name, vip, iface)}]

remove_vip(name, vip, iface) ==
    /\ Persist(delete_resource_fn(local_resources,
                                  vip_res_key(name, vip, iface)),
               Op("remove_vip", <<name, vip, iface>>), FALSE)
    /\ UNCHANGED vips_added

add_init_service(name, service, clone) ==
    /\ Persist(add_init_service_fn(local_resources, name, service, clone),
               Op("add_init_service", <<name, service, clone>>), FALSE)
    /\ UNCHANGED vips_added

remove_init_service(name, service) ==
    /\ Persist(delete_resource_fn(local_resources,
                                  service_res_key(name, service)),
               Op("remove_init_service", <<name, service>>), FALSE)
    /\ UNCHANGED vips_added

add_systemd_service(name, service, clone) ==
    /\ Persist(add_systemd_service_fn(local_resources, name, service, clone),
               Op("add_systemd_service", <<name, service, clone>>), FALSE)
    /\ UNCHANGED vips_added

remove_systemd_service(name, service) ==
    /\ Persist(delete_resource_fn(local_resources,
                                  service_res_key(name, service)),
               Op("remove_systemd_service", <<name, service>>), FALSE)
    /\ UNCHANGED vips_added

add_dnsha(name, ip, fqdn, endpoint_type) ==
    /\ Persist(add_dnsha_fn(local_resources, name, ip, fqdn, endpoint_type),
               Op("add_dnsha", <<name, ip, fqdn, endpoint_type>>), FALSE)
    /\ UNCHANGED vips_added

\* remove_dnsha(name, endpoint_type): the key is built from
\* self.service_name and self.endpoint_type; reading an attribute the
\* instance does not have raises AttributeError before anything is stored.
remove_dnsha(name, endpoint_type) ==
    /\ IF self_attrs.service_name = None \/ self_attrs.endpoint_type = None
       THEN /\ err' = "AttributeError"
            /\ last_op' = Op("remove_dnsha", <<name, endpoint_type>>)
            /\ only_vips' = FALSE
            /\ UNCHANGED local_resources
            /\ UnchangedOutsideRegistry
       ELSE Persist(delete_resource_fn(
                        local_resources,
                        dns_res_key(self_attrs.service_name.v,
                                    self_attrs.endpoint_type.v)),
                    Op("remove_dnsha", <<name, endpoint_type>>), FALSE)
    /\ UNCHANGED vips_added

-----------------------------------------------------------------------------
(* Inputs *)

Names == {"neutron", "nova"}
Vips == {"10.0.0.5", "10.0.0.6"}
NicNames == {None, StrV("eth0")}
Netmasks == {None}
Services == {"nova-api"}
DnsIps == {"10.0.0.5"}
Fqdns == {"api.example.com"}
EndpointTypes == {"public", "internal"}

\* The instance without the two attributes remove_dnsha reads (the class
\* sets neither), or with them set by the charm.
SelfAttrs ==
    {[service_name |-> None, endpoint_type |-> None],
     [service_name |-> StrV("ha-api"), endpoint_type |-> StrV("public")]}

\* Registries as earlier hooks may have persisted them.
PersistedRegistries ==
    LET r1 == add_init_service_fn(None, "neutron", "nova-api", TRUE)
        r2 == delete_resource_fn(r1, service_res_key("nova", "nova-api"))
    IN {r1, r2}

-----------------------------------------------------------------------------
(* Specifications *)

InitState(shares, attrs, registry) ==
    /\ connected = FALSE
    /\ available = FALSE
    /\ remote = [u \in Units |-> None]
    /\ ret = None
    /\ seen = None
    /\ relation = NoRelation
    /\ local_data = EmptyDict
    /\ changed_store = [t \in Topics |-> None]
    /\ calls = [t \in Topics |-> NoCall]
    /\ ungated = NoRelation
    /\ local_resources = registry
    /\ crm_shares = shares
    /\ self_attrs = attrs
    /\ err = NoError
    /\ last_op = Op("init", <<>>)
    /\ flags_before = [connected |-> FALSE, available |-> FALSE]
    /\ vips_added = [n \in Names |-> {}]
    /\ only_vips = TRUE

\* The relation hooks and is_clustered().
Init == InitState(TRUE, [service_name |-> None, endpoint_type |-> None], None)

Next ==
    \/ \E u \in Units, v \in ClusteredValues : RemoteSet(u, v)
    \/ IsClustered
    \/ joined
    \/ changed
    \/ departed

Spec == Init /\ [][Next]_vars

\* bind_on, manage_resources and bind_resources across relations.
GateInit ==
    \E registry \in {None} \cup PersistedRegistries :
        InitState(TRUE, [service_name |-> None, endpoint_type |-> None],
                  registry)

GateNext ==
    \/ joined
    \/ departed
    \/ \E iface \in Ifaces, mcastport \in McastPorts : bind_on(iface, mcastport)
    \/ \E crm \in {EmptyCRM} \cup PersistedRegistries : manage_resources(crm)
    \/ \E iface \in Ifaces, mcastport \in McastPorts :
          bind_resources(iface, mcastport)

GateSpec == GateInit /\ [][GateNext]_vars

\* The registry operations.
RegistryInit ==
    \E shares \in BOOLEAN, attrs \in SelfAttrs : InitState(shares, attrs, None)

RegistryNext ==
    \/ \E name \in Names, vip \in Vips, iface \in NicNames,
          netmask \in Netmasks : add_vip(name, vip, iface, netmask)
    \/ \E name \in Names, vip \in Vips, iface \in NicNames :
          remove_vip(name, vip, iface)
    \/ \E name \in Names, service \in Services, clone \in BOOLEAN :
          add_init_service(name, service, clone)
    \/ \E name \in Names, service \in Services :
          remove_init_service(name, service)
    \/ \E name \in Names, service \in Services, clone \in BOOLEAN :
          add_systemd_service(name, service, clone)
    \/ \E name \in Names, service \in Services :
          remove_systemd_service(name, service)
    \/ \E name \in Names, ip \in DnsIps, fqdn \in Fqdns,
          endpoint_type \in EndpointTypes :
          add_dnsha(name, ip, fqdn, endpoint_type)
    \/ \E name \in Names, endpoint_type \in EndpointTypes :
          remove_dnsha(name, endpoint_type)

RegistrySpec == RegistryInit /\ [][RegistryNext]_vars

-----------------------------------------------------------------------------
(* Properties *)

\* The spellings of the model's values that mean "clustered": the bool
\* true, or 'true' / 'yes' in any case.
MeansClustered(v) ==
    \/ v = BoolV(TRUE)
    \/ v.t = "str" /\ v.v \in {"true", "True", "TRUE", "yes", "Yes", "YES"}

\* The non-empty values the remote units present, in unit order.
PresentedValues == remote_values(1, None)

HasKey(d, k) == d # EmptyDict /\ k \in DOMAIN d

\* C1: in every reachable state of the hooks, taken in any order with any
\* remote 'clustered' value, the available flag is set only if the
\* connected flag is set.
C1_AvailableImpliesConnected == available => connected

\* C2: after a relation-changed event the available flag is set exactly
\* when the 'clustered' value the event read means clustered, whatever the
\* flag was before; the value read is one the remote units present (none
\* when they present none); the connected flag is as the event found it.
C2_ChangedIsLevelTriggered ==
    last_op.op = "changed" =>
        /\ available = MeansClustered(seen)
        /\ ret = BoolV(available)
        /\ IF PresentedValues = <<>> THEN seen = None
           ELSE seen \in SeqToSet(PresentedValues)
        /\ connected = flags_before.connected

\* C2's case: a connected, available unit reads a value that does not mean
\* clustered and falls back to connected.
C2_Witness ==
    /\ last_op.op = "changed"
    /\ flags_before.connected
    /\ flags_before.available
    /\ connected
    /\ ~available

\* C3: after a relation-broken / relation-departed event, from any
\* connection state, both flags are cleared.
C3_DepartedDisconnects ==
    last_op.op = "departed" => ~available /\ ~connected

\* C3's case: the event arrives in the available state.
C3_Witness ==
    /\ last_op.op = "departed"
    /\ flags_before.connected
    /\ flags_before.available
    /\ ~connected
    /\ ~available

\* C4: with a single remote unit, is_clustered() returns true exactly when
\* that unit's 'clustered' value is the bool true or 'true' / 'yes' in any
\* case, false for every other value (absent included), and raises nothing.
C4_IsClusteredSingleUnit ==
    last_op.op = "is_clustered" =>
        \A u \in Units :
            (\A w \in Units \ {u} : remote[w] = None) =>
                /\ ret = BoolV(MeansClustered(remote[u]))
                /\ err = NoError

\* C4's case: the one unit presents a capitalised legacy string.
C4_Witness ==
    /\ last_op.op = "is_clustered"
    /\ remote[1] = StrV("True")
    /\ \A w \in Units \ {1} : remote[w] = None
    /\ ret = BoolV(TRUE)

\* C5: when several remote units present different non-empty values for
\* 'clustered', is_clustered() returns the interpretation of the first
\* non-empty value in unit enumeration order.
C5_FirstValueIsAuthoritative ==
    (last_op.op = "is_clustered"
        /\ Cardinality(SeqToSet(PresentedValues)) >= 2) =>
        ret = BoolV(MeansClustered(PresentedValues[1]))

\* C6: for each topic, a call (with a payload that has something to write)
\* writes its payload if and only if it is the first call for the topic or
\* its payload differs from the payload of the call just before it.
C6_WritesIffFirstOrDiffers ==
    \A t \in Topics :
        (calls[t].count > 0 /\ calls[t].payload # EmptyDict) =>
            (calls[t].wrote <=>
                (calls[t].count = 1 \/ calls[t].payload # calls[t].prev))

\* C6 as amended: manage_resources writes its payload if and only if the
\* call is the first for its topic or the payload differs from that of the
\* call just before; bind_on writes if and only if its payload is not
\* empty and differs from the last non-empty payload of an earlier bind_on
\* call (there being none, it writes): a call with an empty payload writes
\* nothing and is not counted.  What a call writes is in the local store.
C6_WritesIffChangedAmongNonEmpty ==
    LET m == calls[MANAGE_RESOURCES]
        b == calls[BIND_ON]
    IN /\ m.count > 0 => (m.wrote <=> (m.count = 1 \/ m.payload # m.prev))
       /\ b.count > 0 =>
            (b.wrote <=> (b.payload # EmptyDict /\ b.payload # b.kept))
       /\ \A t \in Topics :
            calls[t].wrote =>
                \A k \in DOMAIN calls[t].payload :
                    HasKey(local_data, k) /\ local_data[k] = calls[t].payload[k]

\* C6's case: a payload, then an empty one, then the first payload again,
\* which is not written a second time.
C6_Witness ==
    /\ calls[BIND_ON].count = 2
    /\ calls[BIND_ON].prev = EmptyDict
    /\ calls[BIND_ON].payload # EmptyDict
    /\ calls[BIND_ON].payload = calls[BIND_ON].kept
    /\ ~calls[BIND_ON].wrote

\* C7: after every call, interleaved with relation events, the settings on
\* the relation are those it would hold had every call written its payload.
C7_GateIsPureOptimization == relation = ungated

RegistryGroups == IF local_resources = None THEN EmptyDict
                  ELSE local_resources.groups

\* C8: after every add_vip(name, ...) of a sequence of add_vip calls from
\* an empty registry, the persisted registry has the group grp_<name>_vips
\* and its members are exactly the VIP keys added under that name.
C8_VipGroupPerServiceName ==
    (last_op.op = "add_vip" /\ only_vips) =>
        LET name == last_op.args[1]
            group == "grp_" \o name \o "_vips"
        IN /\ HasKey(RegistryGroups, group)
           /\ RegistryGroups[group] = vips_added[name]

AddOps == {"add_vip", "add_dnsha", "add_init_service", "add_systemd_service"}

\* C9: an add operation repeated with the same arguments leaves the
\* persisted registry as the first call left it.
C9_AddTwiceIsAddOnce ==
    [][(/\ last_op'.op \in AddOps
        /\ last_op.op = last_op'.op
        /\ last_op.args = last_op'.args) =>
            local_resources' = local_resources]_vars

\* C10: remove_dnsha(name, endpoint_type) raises nothing and records the
\* deletion of the key built from its arguments, leaving the resources of
\* the registry as they were.
C10_RemoveDnshaUsesItsParameters ==
    [][last_op'.op = "remove_dnsha" =>
        /\ err' = NoError
        /\ local_resources' # None
        /\ dns_res_key(last_op'.args[1], last_op'.args[2])
              \in local_resources'.delete_resources
        /\ local_resources # None =>
              local_resources'.resources = local_resources.resources]_vars

====
